---- MODULE Spec2Model ----
(***************************************************************************)
(* Session / refresh-token subsystem of the backend: the handlers login,   *)
(* emailLogin, register (src/controllers/auth.controller.js) and login,    *)
(* register, refresh, logout, sessions, revokeSession, generate-card       *)
(* (src/routes/workerRoutes.js) acting on User documents                   *)
(* (src/models/user.model.js), and the handlers PUT /:id and POST          *)
(* /:id/flag acting on Worker documents (src/models/Worker.js).            *)
(*                                                                         *)
(* Every handler is an async function.  Between two awaits it runs         *)
(* atomically; the awaits on the store (User.findOne / findById and        *)
(* user.save) are the points where other requests interleave.  A handler   *)
(* is therefore two steps: "Load" (arrival, token check, the store read    *)
(* and the in-memory changes up to `await user.save()`) and "Save" (the    *)
(* store write and the response).                                          *)
(*                                                                         *)
(* user.save() is Mongoose's: it sends only the modified paths, guarded    *)
(* by the document version __v (the schema leaves versioning on):          *)
(*   sessions.push(x)            -> $push,  $inc __v, no version test      *)
(*   user.sessions = <array>     -> $set of the array, test __v, $inc __v  *)
(*   session.<field> = value     -> $set sessions.<i>.<field>, test __v    *)
(* A failed version test rejects save() with a VersionError.  Assigning an *)
(* array deep-equal to the loaded one marks nothing modified: no write.    *)
(***************************************************************************)
EXTENDS Integers, Sequences, FiniteSets, TLC

\* ---- bounds of the model ------------------------------------------------
NumReq == 2          \* requests in flight at the same time
MaxOps == 3          \* requests started in one behaviour
MaxTime == 4         \* last instant of the clock

\* ---- program constants ---------------------------------------------------
SessionCap == 5      \* if (user.sessions.length > 5) slice(-5)
SessionTTL == 3      \* 30 * 24 * 3600 * 1000 ms, in clock ticks
RefreshTTL == SessionTTL   \* cookie maxAge = refresh token TTL = 30 days
AccessTTL == 1       \* lifetime of an access token, in clock ticks
HARD_CODED_OTP == "123456"
RoleEnum == {"user", "worker", "admin"}

InitUsers == {1, 2}  \* the principals registered at the start (their _id)
NewUser == 3         \* the _id (and the address) of a principal registered later
Actors == {1}        \* the principals whose clients send requests
InitSizes == {2, SessionCap}   \* sessions principal 1 holds initially

\* ---- tokens ---------------------------------------------------------------
\* cryptoHash(rid): sha256 hex digest; one-way, injective on the rids used.
cryptoHash(rid) == <<"sha256", rid>>

\* ---- addresses ------------------------------------------------------------
\* An e-mail address as a request spells it: addr names the address up to the
\* case of its letters, upper tells whether the spelling has capitals.
Address(a) == [addr |-> a, upper |-> FALSE]
Capitals(a) == [addr |-> a, upper |-> TRUE]
\* String.prototype.toLowerCase
toLowerCase(email) == [email EXCEPT !.upper = FALSE]

NoToken == [sub |-> 0, rid |-> 0, exp |-> 0, sig |-> "none"]
BadToken == [sub |-> 1, rid |-> 0, exp |-> 0, sig |-> "bad"]
NoAccess == [sub |-> 0, role |-> "", exp |-> 0, sig |-> "none"]
BadAccess == [sub |-> 1, role |-> "user", exp |-> MaxTime + 1, sig |-> "bad"]

signRefresh(sub, rid, t) == [sub |-> sub, rid |-> rid, exp |-> t + RefreshTTL, sig |-> "ok"]
verifyRefresh(tok, t) == tok.sig = "ok" /\ t < tok.exp
\* A token with a valid signature that names principal 1 with a correlation
\* id none of its sessions ever had, the one of principal 2's session (forged
\* with the signing key).
ForgedToken == signRefresh(1, 10 * SessionCap, 2)
signAccess(sub, role, t) ==
  [sub |-> sub, role |-> role, exp |-> t + AccessTTL, sig |-> "ok"]
verifyAccess(tok, t) == tok.sig = "ok" /\ t < tok.exp

\* ---- sequences ------------------------------------------------------------
\* Array.prototype.slice(-n)
SliceLast(s, n) == IF Len(s) <= n THEN s ELSE SubSeq(s, Len(s) - n + 1, Len(s))

\* sessions.filter((s) => s.refreshTokenHash !== hashed)
\* Variant: the filter compares the stored hash with the unhashed id, which
\* no session matches.
RemoveByRawId(s, h) == s

\* Variant: the filter drops every session of the user.
RemoveEvery(s, h) == <<>>

RECURSIVE RemoveByHash(_, _)
RemoveByHash(s, h) ==
  IF s = <<>> THEN <<>>
  ELSE (IF Head(s).hash # h THEN <<Head(s)>> ELSE <<>>) \o RemoveByHash(Tail(s), h)

\* sessions.filter((s) => s._id.toString() !== sessionId)
\* Variant: the filter compares the ObjectId itself with the string, which no
\* session matches.
RemoveByObjectId(s, id) == s

RECURSIVE RemoveById(_, _)
RemoveById(s, id) ==
  IF s = <<>> THEN <<>>
  ELSE (IF Head(s).id # id THEN <<Head(s)>> ELSE <<>>) \o RemoveById(Tail(s), id)

\* Variant: find() without the comparison of the hashes returns the first
\* session.
FindFirst(s, h) == IF s = <<>> THEN 0 ELSE 1

\* sessions.find((s) => s.refreshTokenHash === hashed): the index of the first
\* match, 0 for undefined
FindByHash(s, h) ==
  IF \E i \in 1..Len(s) : s[i].hash = h
  THEN CHOOSE i \in 1..Len(s) : s[i].hash = h /\ \A j \in 1..(i - 1) : s[j].hash # h
  ELSE 0

\* db: the users collection; now: the clock; req: the requests in flight,
\* each past its store read and waiting in `await user.save()`; last: the
\* request that responded in the step just taken (Idle otherwise); issued: the
\* refresh tokens handed to clients; used: the correlation ids a successful
\* refresh has rotated away; nextRid, nextSid: fresh identifiers; ops: requests
\* started so far; removed: the sessions (hash and id) a logout, a revoke, the
\* cap of a login or the expiry test of a refresh has removed, each with the
\* handler that did; granted: the access tokens
\* handed to clients; workers: the workers collection, in the order of
\* creation, a deleted worker keeping its place with stored = FALSE.
VARIABLES db, now, req, last, issued, used, nextRid, nextSid, ops,
          removed, granted, workers
vars == <<db, now, req, last, issued, used, nextRid, nextSid, ops,
          removed, granted, workers>>

\* The stored principals (their _id).
Users == DOMAIN db

\* ---- workers ---------------------------------------------------------------
\* new Worker({...cardData, createdBy}); flags: default 0, flagReasons: [].
\* reasons: the length of flagReasons.
NewWorker(u) == [stored |-> TRUE, flags |-> 0, reasons |-> 0, createdBy |-> u]

\* Worker.findById(id) finds a document
WorkerExists(id) == id \in 1..Len(workers) /\ workers[id].stored

\* ---- sessions and the pending write of a loaded document ------------------
\* Variant: the correlation id is derived from the clock instead of being
\* drawn afresh.
NewSessionClockId(sid, rid, t) ==
  [id |-> sid, hash |-> cryptoHash(t), createdAt |-> t, lastUsedAt |-> t,
   expiresAt |-> t + SessionTTL]

\* Variant: the stored hash is taken of the session's own id.
NewSessionOwnId(sid, rid, t) ==
  [id |-> sid, hash |-> cryptoHash(sid), createdAt |-> t, lastUsedAt |-> t,
   expiresAt |-> t + SessionTTL]

\* user.sessions.push({deviceInfo, refreshTokenHash, createdAt, lastUsedAt, expiresAt})
NewSession(sid, rid, t) ==
  [id |-> sid, hash |-> cryptoHash(rid), createdAt |-> t, lastUsedAt |-> t,
   expiresAt |-> t + SessionTTL]

NoOp == [type |-> "none", arr |-> <<>>, i |-> 0, hash |-> cryptoHash(0), at |-> 0]
PushOp(s) == [NoOp EXCEPT !.type = "push", !.arr = <<s>>]
SetAllOp(arr) == [NoOp EXCEPT !.type = "setAll", !.arr = arr]
SetIdxOp(i, h, t) == [NoOp EXCEPT !.type = "setIdx", !.i = i, !.hash = h, !.at = t]

\* user.save(): does the write pass the version test?
SaveOk(doc, op, lv) == op.type \in {"none", "push"} \/ doc.v = lv

\* Variant: save() writes the whole in-memory sessions array back.
SavedOverwrite(doc, op) ==
  CASE op.type = "push"   -> [doc EXCEPT !.sessions = @ \o op.arr, !.v = @ + 1]
    [] op.type \in {"setAll", "setIdx"} -> [doc EXCEPT !.sessions = op.arr, !.v = @ + 1]
    [] OTHER -> doc

\* Variant: a rotation also renews the session's expiry (sliding lifetime).
SavedSliding(doc, op) ==
  CASE op.type = "push"   -> [doc EXCEPT !.sessions = @ \o op.arr, !.v = @ + 1]
    [] op.type = "setAll" -> [doc EXCEPT !.sessions = op.arr, !.v = @ + 1]
    [] op.type = "setIdx" -> [doc EXCEPT !.sessions[op.i].hash = op.hash,
                                         !.sessions[op.i].lastUsedAt = op.at,
                                         !.sessions[op.i].expiresAt = op.at + SessionTTL]
    [] OTHER -> doc

\* Variant: a rotation takes the session out of the list and appends it anew.
SavedReappended(doc, op) ==
  CASE op.type = "push"   -> [doc EXCEPT !.sessions = @ \o op.arr, !.v = @ + 1]
    [] op.type = "setAll" -> [doc EXCEPT !.sessions = op.arr, !.v = @ + 1]
    [] op.type = "setIdx" ->
         [doc EXCEPT !.sessions =
            SubSeq(@, 1, op.i - 1) \o SubSeq(@, op.i + 1, Len(@)) \o
            <<[@[op.i] EXCEPT !.hash = op.hash, !.lastUsedAt = op.at]>>]
    [] OTHER -> doc

\* Variant: of the two assignments of a rotation only the hash is written.
SavedHashOnly(doc, op) ==
  CASE op.type = "push"   -> [doc EXCEPT !.sessions = @ \o op.arr, !.v = @ + 1]
    [] op.type = "setAll" -> [doc EXCEPT !.sessions = op.arr, !.v = @ + 1]
    [] op.type = "setIdx" -> [doc EXCEPT !.sessions[op.i].hash = op.hash]
    [] OTHER -> doc

\* user.save(): the stored document after the write.
Saved(doc, op) ==
  CASE op.type = "push"   -> [doc EXCEPT !.sessions = @ \o op.arr, !.v = @ + 1]
    [] op.type = "setAll" -> [doc EXCEPT !.sessions = op.arr, !.v = @ + 1]
    [] op.type = "setIdx" -> [doc EXCEPT !.sessions[op.i].hash = op.hash,
                                         !.sessions[op.i].lastUsedAt = op.at]
    [] OTHER -> doc

\* ---- requests and responses ----------------------------------------------
\* A response: status and msg (the error or message of the JSON body), cookie
\* what it does to the refresh cookie, refresh / access the tokens the client
\* is given; body: the credentials written into the JSON body, jar: those
\* written into Set-Cookie.
NoResp == [status |-> 0, msg |-> "", cookie |-> "keep", refresh |-> NoToken,
           access |-> NoAccess, body |-> {}, jar |-> {}]
Resp(status, msg, cookie) == [NoResp EXCEPT !.status = status, !.msg = msg, !.cookie = cookie]

\* A rejected await that no try block of the handler catches, the outcomes a
\* build can produce: the router does not take the rejected promise of an
\* async handler and the request is left without a response (status 0), or
\* it hands the error to the error-handling middleware of app.js, which
\* answers res.status(err.statusCode || 500).json({error: err.message}).
Unhandled == {Resp(0, "unhandled rejection", "keep"), Resp(500, "err.message", "keep")}

\* Variant: the body carries the refresh token next to the access token.
RespTokensBoth(access, refresh) ==
  [status |-> 200, msg |-> "success", cookie |-> "set", refresh |-> refresh,
   access |-> access, body |-> {access, refresh}, jar |-> {refresh}]

\* res.cookie(COOKIE_NAME, refresh, {...}); res.json({success: true, access, ...})
RespTokens(access, refresh) ==
  [status |-> 200, msg |-> "success", cookie |-> "set", refresh |-> refresh,
   access |-> access, body |-> {access}, jar |-> {refresh}]

\* A request: n its number, kind its handler, uid the principal it acts on,
\* tok the refresh token it carries, sid the session it names or matched, at
\* the instant of its store read, loaded / lv / role the sessions, version and
\* role it read, op the write its save will send, newTok / access the tokens it
\* minted, peers the correlation ids of the refresh requests of the same
\* principal in flight when it read the store, reuse whether a successful
\* refresh had already rotated its token away when it arrived, valid whether
\* its credentials (token, passcode, password) passed, given whether the
\* fields its handler requires were all present, gone by which handlers
\* the session of its token had been removed when it
\* arrived, bearer the access token it presented, list the sessions its
\* response lists; and once it has
\* responded: pre, the sessions its principal held just before its last step,
\* dup, whether its token had been rotated away by then, and resp.
Idle == [pc |-> "idle", n |-> 0, kind |-> "none", uid |-> 0, tok |-> NoToken,
         sid |-> 0, at |-> 0, loaded |-> <<>>, lv |-> 0, role |-> "",
         op |-> NoOp, newTok |-> NoToken, access |-> NoAccess, peers |-> {},
         reuse |-> FALSE, valid |-> FALSE, pre |-> <<>>, dup |-> FALSE,
         gone |-> {}, given |-> FALSE, bearer |-> NoAccess, list |-> <<>>,
         flags |-> 0,
         resp |-> NoResp]

CanStart == ops < MaxOps /\ Cardinality(req) < NumReq

Peers(u) == {q.tok.rid : q \in {x \in req : x.kind = "refresh" /\ x.uid = u}}

\* The sessions that a write of the array `kept` takes out of `stored`.
Removal(stored, kept, by) ==
  {[hash |-> stored[j].hash, id |-> stored[j].id, by |-> by] :
     j \in {k \in 1..Len(stored) :
              \A i \in 1..Len(kept) : kept[i].id # stored[k].id}}

GoneBy(tok) == {x.by : x \in {y \in removed : y.hash = cryptoHash(tok.rid)}}

Arrive(kind, u) ==
  [Idle EXCEPT !.n = ops + 1, !.kind = kind, !.uid = u, !.at = now]
Loaded(rec, u) ==
  [rec EXCEPT !.uid = u, !.loaded = db[u].sessions, !.lv = db[u].v,
              !.role = db[u].role, !.peers = Peers(u)]
Done(rec, resp) ==
  [rec EXCEPT !.pc = "done", !.resp = resp, !.dup = (rec.tok.rid \in used),
              !.pre = IF rec.uid \in Users THEN db[rec.uid].sessions ELSE <<>>]
Pending(rec, op) == [rec EXCEPT !.pc = "save", !.op = op]

\* Variant: the early return also sets the refresh cookie.
ReplySetCookie(rec, resp) ==
  /\ last' = Done(rec, [resp EXCEPT !.cookie = "set"])
  /\ UNCHANGED req

\* A handler that responds without a save of its own.
Reply(rec, resp) ==
  /\ last' = Done(rec, resp)
  /\ UNCHANGED req

\* A handler that goes on to `await user.save()`.
Await(rec, op) ==
  /\ last' = Idle
  /\ req' = req \cup {Pending(rec, op)}

\* A handler that responds after its save.
Finish(q, resp) ==
  /\ last' = Done(q, resp)
  /\ req' = req \ {q}

\* ---- initial state --------------------------------------------------------
\* Principal 1 logged in on device 1 at instant 0 and on its other devices at
\* instant 1, and device 1 refreshed once at instant 2, which is now.  Devices
\* 1 and n send requests; the others stay silent.  Principal 2 logged in on one
\* device at instant 1 and sends no request.
StaleRid == SessionCap + 1
InitSession(i) ==
  IF i = 1 THEN [NewSession(1, 1, 0) EXCEPT !.lastUsedAt = 2] ELSE NewSession(i, i, 1)
InitToken(i) == signRefresh(1, i, IF i = 1 THEN 2 ELSE 1)
InitDoc(n) ==
  [email |-> Address(1), role |-> "user", passwordHash |-> TRUE,
   sessions |-> [i \in 1..n |-> InitSession(i)], v |-> n]

\* The id (and the correlation id) of principal 2's session.
OtherSid == 10 * SessionCap
OtherDoc ==
  [email |-> Address(2), role |-> "user", passwordHash |-> TRUE,
   sessions |-> <<NewSession(OtherSid, OtherSid, 1)>>, v |-> 1]

\* Principal 1 owns a worker that was flagged once, principal 2 one that was
\* never flagged.
InitWorkers ==
  <<[NewWorker(1) EXCEPT !.flags = 1, !.reasons = 1], NewWorker(2)>>

Init ==
  /\ \E n \in InitSizes :
       /\ db = [u \in InitUsers |-> IF u = 1 THEN InitDoc(n) ELSE OtherDoc]
       /\ issued = {InitToken(1), InitToken(n), signRefresh(1, StaleRid, 0)}
  /\ now = 2
  /\ req = {}
  /\ last = Idle
  /\ used = {StaleRid}
  /\ nextRid = StaleRid + 1
  /\ nextSid = SessionCap + 1
  /\ ops = 0
  /\ removed = {}
  /\ granted = {signAccess(1, "user", t) : t \in 0..2}
  /\ workers = InitWorkers

\* ---- the clock ------------------------------------------------------------
\* Variant: a timer sweeps the sessions whose expiry has passed.
TickSweeping ==
  /\ now < MaxTime
  /\ now' = now + 1
  /\ last' = Idle
  /\ db' = [u \in Users |->
              [db[u] EXCEPT !.sessions = SelectSeq(@, LAMBDA x : x.expiresAt >= now + 1)]]
  /\ UNCHANGED <<req, issued, used, nextRid, nextSid, ops, removed, granted, workers>>

Tick ==
  /\ now < MaxTime
  /\ now' = now + 1
  /\ last' = Idle
  /\ UNCHANGED <<db, req, issued, used, nextRid, nextSid, ops, removed, granted, workers>>

\* ---- minting a session: the common tail of login and emailLogin ----------
\* Variant: slice(0, 5), which keeps the oldest five.
CapSessionsHead(s) == IF Len(s) > SessionCap THEN SubSeq(s, 1, SessionCap) ELSE s

\* if (user.sessions.length > 5) user.sessions = user.sessions.slice(-5)
CapSessions(s) == IF Len(s) > SessionCap THEN SliceLast(s, SessionCap) ELSE s

\* The write user.save() sends after push (and slice, when over the cap).
LoginOp(sessions, sess) ==
  IF Len(Append(sessions, sess)) > SessionCap
  THEN SetAllOp(CapSessions(Append(sessions, sess)))
  ELSE PushOp(sess)

\* signAccess, genRefreshId, signRefresh, push, slice; then `await user.save()`.
Mint(rec, u) ==
  /\ Await([Loaded(rec, u) EXCEPT
              !.sid = nextSid,
              !.access = signAccess(u, db[u].role, now),
              !.newTok = signRefresh(u, nextRid, now)],
           LoginOp(db[u].sessions, NewSession(nextSid, nextRid, now)))
  /\ nextRid' = nextRid + 1
  /\ nextSid' = nextSid + 1

\* ---- login (mobile + OTP) -------------------------------------------------
\* Variant: a schema without the enum on role.
ValidUserAnyRole(doc) == doc.email /\ doc.passwordHash

\* userSchema: email and passwordHash are required, role is an enum, and the
\* schema has no path "mobile" (strict mode drops it from new User({mobile})).
ValidUser(doc) == doc.email /\ doc.passwordHash /\ doc.role \in RoleEnum

\* User.findOne({mobile}), the outcomes a build can produce: no stored
\* document carries a field "mobile", so the filter matches nothing (0); a
\* build whose Mongoose strips filter paths unknown to the schema queries with
\* {} instead and gets the first stored user.
FindByMobile(mobile) == {0, 1}

\* new User({mobile, role: role || "worker", registerDate})
NewMobileUser(role) ==
  [email |-> FALSE, passwordHash |-> FALSE, role |-> IF role = "" THEN "worker" ELSE role]

login(mobile, otp, role) ==
  /\ CanStart
  /\ \E u \in FindByMobile(mobile) :
     LET rec == [Arrive("login", 0) EXCEPT !.valid = (mobile /\ otp = HARD_CODED_OTP)]
     IN IF ~mobile \/ otp = "" THEN
          /\ Reply(rec, Resp(400, "Mobile number and OTP are required", "keep"))
          /\ UNCHANGED <<nextRid, nextSid>>
        ELSE IF otp # HARD_CODED_OTP THEN
          /\ Reply(rec, Resp(401, "Invalid OTP", "keep"))
          /\ UNCHANGED <<nextRid, nextSid>>
        ELSE IF u = 0 /\ ~ValidUser(NewMobileUser(role)) THEN
          \* the first user.save() rejects with a ValidationError: catch block
          /\ Reply(rec, Resp(500, "Login failed", "keep"))
          /\ UNCHANGED <<nextRid, nextSid>>
        ELSE IF u \in Users THEN
          Mint(rec, u)
        ELSE
          /\ Reply(rec, Resp(500, "Login failed", "keep"))
          /\ UNCHANGED <<nextRid, nextSid>>
  /\ ops' = ops + 1
  /\ UNCHANGED <<db, now, issued, used, removed, granted, workers>>

\* ---- emailLogin (email + password) ----------------------------------------
\* email: a principal's id stands for its (lower-cased) address, 0 for an
\* address nobody registered; password: "good", "bad" or "" (missing).
emailLogin(email, password) ==
  /\ CanStart
  /\ LET rec == [Arrive("emailLogin", email) EXCEPT
                   !.valid = (password = "good"), !.given = (password # "")]
     IN IF password = "" THEN
          /\ Reply(rec, Resp(400, "Email and password are required", "keep"))
          /\ UNCHANGED <<nextRid, nextSid>>
        ELSE IF email \notin Users THEN
          /\ Reply(rec, Resp(401, "Invalid email or password", "keep"))
          /\ UNCHANGED <<nextRid, nextSid>>
        ELSE IF ~db[email].passwordHash THEN
          /\ Reply(rec, Resp(401, "This account uses mobile login", "keep"))
          /\ UNCHANGED <<nextRid, nextSid>>
        ELSE IF password # "good" THEN
          /\ Reply(rec, Resp(401, "Invalid email or password", "keep"))
          /\ UNCHANGED <<nextRid, nextSid>>
        ELSE
          Mint(rec, email)
  /\ ops' = ops + 1
  /\ UNCHANGED <<db, now, issued, used, removed, granted, workers>>

\* ---- login of the routes file (email + password) --------------------------
\* The handler has no try block around its awaits.
routesLogin(email, password) ==
  /\ CanStart
  /\ LET rec == [Arrive("routesLogin", email) EXCEPT
                   !.valid = (password = "good"), !.given = (password # "")]
     IN IF password = "" THEN
          /\ Reply(rec, Resp(400, "Email and password are required", "keep"))
          /\ UNCHANGED <<nextRid, nextSid>>
        ELSE IF email \notin Users THEN
          /\ Reply(rec, Resp(404, "Invalid credentials", "keep"))
          /\ UNCHANGED <<nextRid, nextSid>>
        ELSE IF password # "good" THEN
          /\ Reply(rec, Resp(401, "Invalid credentials", "keep"))
          /\ UNCHANGED <<nextRid, nextSid>>
        ELSE
          Mint(rec, email)
  /\ ops' = ops + 1
  /\ UNCHANGED <<db, now, issued, used, removed, granted, workers>>

\* Variant: res.cookie() runs before `await user.save()`, so the response of
\* the catch block still carries the refresh cookie.
loginSaveCookieFirst(q) ==
  /\ q.kind \in {"login", "emailLogin", "routesLogin"}
  /\ IF SaveOk(db[q.uid], q.op, q.lv) THEN
       /\ db' = [db EXCEPT ![q.uid] = Saved(db[q.uid], q.op)]
       /\ issued' = issued \cup {q.newTok}
       /\ granted' = granted \cup {q.access}
       /\ removed' = IF q.op.type = "setAll"
                     THEN removed \cup Removal(db[q.uid].sessions, q.op.arr, "login")
                     ELSE removed
       /\ Finish(q, RespTokens(q.access, q.newTok))
     ELSE
       /\ Finish(q, [Resp(500, "Login failed", "set") EXCEPT
                       !.refresh = q.newTok, !.jar = {q.newTok}])
       /\ issued' = issued \cup {q.newTok}
       /\ UNCHANGED <<db, granted, removed>>
  /\ UNCHANGED <<now, used, nextRid, nextSid, ops, workers>>

\* `await user.save()` of a login handler, the cookie and the response.
loginSave(q) ==
  /\ q.kind \in {"login", "emailLogin", "routesLogin"}
  /\ IF SaveOk(db[q.uid], q.op, q.lv) THEN
       /\ db' = [db EXCEPT ![q.uid] = Saved(db[q.uid], q.op)]
       /\ issued' = issued \cup {q.newTok}
       /\ granted' = granted \cup {q.access}
       /\ removed' = IF q.op.type = "setAll"
                     THEN removed \cup Removal(db[q.uid].sessions, q.op.arr, "login")
                     ELSE removed
       /\ Finish(q, RespTokens(q.access, q.newTok))
     ELSE
       \* VersionError: catch block; the routes handler has none
       /\ \E resp \in (IF q.kind = "routesLogin"
                        THEN Unhandled
                        ELSE {Resp(500, "Login failed", "keep")}) : Finish(q, resp)
       /\ UNCHANGED <<db, issued, granted, removed>>
  /\ UNCHANGED <<now, used, nextRid, nextSid, ops, workers>>

\* ---- refresh ---------------------------------------------------------------
\* Variant: the comparison turned around.
ExpiredReversed(session, t) == session.expiresAt > t

\* Variant: expired from the instant of expiry on.
ExpiredAtExpiry(session, t) == session.expiresAt <= t

\* if (session.expiresAt < new Date())
Expired(session, t) == session.expiresAt < t

\* Variant: the rotation stores the new correlation id itself.
RotateOpRaw(sessions, i, newRid, t) ==
  [SetIdxOp(i, <<"raw", newRid>>, t) EXCEPT
     !.arr = [sessions EXCEPT ![i].hash = <<"raw", newRid>>, ![i].lastUsedAt = t]]

\* session.refreshTokenHash = cryptoHash(newRid); session.lastUsedAt = new Date()
\* (arr: the sessions of the in-memory document after the two assignments)
RotateOp(sessions, i, newRid, t) ==
  [SetIdxOp(i, cryptoHash(newRid), t) EXCEPT
     !.arr = [sessions EXCEPT ![i].hash = cryptoHash(newRid), ![i].lastUsedAt = t]]

\* Variant: the user is looked up by the hash of the correlation id,
\* User.findOne({"sessions.refreshTokenHash": hashed}).
TokenUserByHash(tok) ==
  IF \E u \in Users : cryptoHash(tok.rid) \in {db[u].sessions[j].hash : j \in 1..Len(db[u].sessions)}
  THEN CHOOSE u \in Users :
         cryptoHash(tok.rid) \in {db[u].sessions[j].hash : j \in 1..Len(db[u].sessions)}
  ELSE tok.sub

\* payload.sub: the id refresh and logout hand to User.findById.
TokenUser(tok) == tok.sub

\* Variant: a token without session is taken for a stolen one and every
\* session of the principal is revoked.
sessionNotFoundRevokeAll(rec) ==
  /\ Await(rec, SetAllOp(<<>>))
  /\ UNCHANGED <<nextRid, nextSid>>

\* Variant: the response tells a token that was rotated away from one that
\* never had a session.
sessionNotFoundTelling(rec) ==
  /\ Reply(rec, Resp(401, IF rec.reuse THEN "Token reused" ELSE "Session not found", "clear"))
  /\ UNCHANGED <<nextRid, nextSid>>

\* if (!session) { res.clearCookie(...); return res.status(401).json(...) }
sessionNotFound(rec) ==
  /\ Reply(rec, Resp(401, "Session not found", "clear"))
  /\ UNCHANGED <<nextRid, nextSid>>

refresh(tok) ==
  /\ CanStart
  /\ LET ok == verifyRefresh(tok, now)
         u == IF ok THEN TokenUser(tok) ELSE 0
         rec0 == [Arrive("refresh", u) EXCEPT
                    !.tok = tok, !.valid = ok, !.reuse = (tok.rid \in used),
                    !.gone = GoneBy(tok)]
     IN IF tok = NoToken THEN
          /\ Reply(rec0, Resp(401, "No refresh token provided", "keep"))
          /\ UNCHANGED <<nextRid, nextSid>>
        ELSE IF ~ok THEN
          /\ Reply(rec0, Resp(401, "Invalid or expired refresh token", "clear"))
          /\ UNCHANGED <<nextRid, nextSid>>
        ELSE IF u \notin Users THEN
          /\ Reply(rec0, Resp(401, "User not found", "clear"))
          /\ UNCHANGED <<nextRid, nextSid>>
        ELSE
          LET hashed == cryptoHash(tok.rid)
              i == FindByHash(db[u].sessions, hashed)
              rec == [Loaded(rec0, u) EXCEPT
                        !.sid = IF i = 0 THEN 0 ELSE db[u].sessions[i].id]
          IN IF i = 0 THEN
               sessionNotFound(rec)
             ELSE IF Expired(db[u].sessions[i], now) THEN
               /\ Await(rec, SetAllOp(RemoveByHash(db[u].sessions, hashed)))
               /\ UNCHANGED <<nextRid, nextSid>>
             ELSE
               /\ Await([rec EXCEPT !.newTok = signRefresh(u, nextRid, now)],
                        RotateOp(db[u].sessions, i, nextRid, now))
               /\ nextRid' = nextRid + 1
               /\ UNCHANGED nextSid
  /\ ops' = ops + 1
  /\ UNCHANGED <<db, now, issued, used, removed, granted, workers>>

\* Variant: the access token of a refresh repeats the role the principal
\* registered with.
refreshSaveLoginRole(q) ==
  /\ q.kind = "refresh"
  /\ IF ~SaveOk(db[q.uid], q.op, q.lv) THEN
       /\ \E resp \in Unhandled : Finish(q, resp)
       /\ UNCHANGED <<db, issued, used, granted, removed>>
     ELSE IF q.op.type = "setAll" THEN
       /\ db' = [db EXCEPT ![q.uid] = Saved(db[q.uid], q.op)]
       /\ removed' = removed \cup Removal(db[q.uid].sessions, q.op.arr, "refresh")
       /\ Finish(q, Resp(401, "Session expired", "clear"))
       /\ UNCHANGED <<issued, used, granted>>
     ELSE
       /\ db' = [db EXCEPT ![q.uid] = Saved(db[q.uid], q.op)]
       /\ issued' = issued \cup {q.newTok}
       /\ used' = used \cup {q.tok.rid}
       /\ granted' = granted \cup {signAccess(q.uid, "user", now)}
       /\ Finish(q, RespTokens(signAccess(q.uid, "user", now), q.newTok))
       /\ UNCHANGED removed
  /\ UNCHANGED <<now, nextRid, nextSid, ops, workers>>

\* `await user.save()` of refresh and what follows it.  refresh has no
\* try/catch: a rejected save leaves the handler without a response of its own.
refreshSave(q) ==
  /\ q.kind = "refresh"
  /\ IF ~SaveOk(db[q.uid], q.op, q.lv) THEN
       /\ \E resp \in Unhandled : Finish(q, resp)
       /\ UNCHANGED <<db, issued, used, granted, removed>>
     ELSE IF q.op.type = "setAll" THEN
       /\ db' = [db EXCEPT ![q.uid] = Saved(db[q.uid], q.op)]
       /\ removed' = removed \cup Removal(db[q.uid].sessions, q.op.arr, "refresh")
       /\ Finish(q, Resp(401, "Session expired", "clear"))
       /\ UNCHANGED <<issued, used, granted>>
     ELSE
       /\ db' = [db EXCEPT ![q.uid] = Saved(db[q.uid], q.op)]
       /\ issued' = issued \cup {q.newTok}
       /\ used' = used \cup {q.tok.rid}
       /\ granted' = granted \cup {signAccess(q.uid, q.role, now)}
       /\ Finish(q, RespTokens(signAccess(q.uid, q.role, now), q.newTok))
       /\ UNCHANGED removed
  /\ UNCHANGED <<now, nextRid, nextSid, ops, workers>>

\* ---- logout ----------------------------------------------------------------
\* Variant: logout reports the failure of its token.
LoggedOutRefused == Resp(401, "Invalid or expired refresh token", "clear")

\* res.clearCookie(COOKIE_NAME); res.json({success: true, message})
LoggedOut == Resp(200, "Logged out successfully", "clear")

logout(tok) ==
  /\ CanStart
  /\ LET ok == verifyRefresh(tok, now)
         u == IF ok THEN TokenUser(tok) ELSE 0
         rec0 == [Arrive("logout", u) EXCEPT
                    !.tok = tok, !.valid = ok, !.gone = GoneBy(tok)]
     IN IF tok = NoToken \/ ~ok \/ u \notin Users THEN
          Reply(rec0, LoggedOut)
        ELSE
          LET kept == RemoveByHash(db[u].sessions, cryptoHash(tok.rid))
              rec == Loaded(rec0, u)
          IN IF kept = db[u].sessions
             THEN Reply(rec, LoggedOut)
             ELSE Await(rec, SetAllOp(kept))
  /\ ops' = ops + 1
  /\ UNCHANGED <<db, now, issued, used, nextRid, nextSid, removed, granted, workers>>

\* Variant: without the try block a rejected save ends the request.
logoutSaveUncaught(q) ==
  /\ q.kind = "logout"
  /\ IF SaveOk(db[q.uid], q.op, q.lv) THEN
       /\ db' = [db EXCEPT ![q.uid] = Saved(@, q.op)]
       /\ removed' = removed \cup Removal(db[q.uid].sessions, q.op.arr, "logout")
       /\ Finish(q, LoggedOut)
     ELSE
       /\ Finish(q, Resp(0, "unhandled rejection", "keep"))
       /\ UNCHANGED <<db, removed>>
  /\ UNCHANGED <<now, issued, used, nextRid, nextSid, ops, granted, workers>>

\* `await user.save()` of logout; a rejection is caught and logged.
logoutSave(q) ==
  /\ q.kind = "logout"
  /\ db' = [db EXCEPT ![q.uid] =
              IF SaveOk(@, q.op, q.lv) THEN Saved(@, q.op) ELSE @]
  /\ removed' = IF SaveOk(db[q.uid], q.op, q.lv)
                THEN removed \cup Removal(db[q.uid].sessions, q.op.arr, "logout")
                ELSE removed
  /\ Finish(q, LoggedOut)
  /\ UNCHANGED <<now, issued, used, nextRid, nextSid, ops, granted, workers>>

\* ---- revokeSession ---------------------------------------------------------
\* Variant: without the comparison of the lengths every revoke is saved.
revokeSessionUnchecked(u, sessionId) ==
  /\ CanStart
  /\ Await([Loaded(Arrive("revoke", u), u) EXCEPT !.sid = sessionId],
           SetAllOp(RemoveById(db[u].sessions, sessionId)))
  /\ ops' = ops + 1
  /\ UNCHANGED <<db, now, issued, used, nextRid, nextSid, removed, granted, workers>>

\* u: req.user.id, the principal the authenticate middleware let in.
revokeSession(u, sessionId) ==
  /\ CanStart
  /\ LET kept == RemoveById(db[u].sessions, sessionId)
         rec == [Loaded(Arrive("revoke", u), u) EXCEPT !.sid = sessionId]
     IN IF Len(kept) = Len(db[u].sessions)
        THEN Reply(rec, Resp(404, "Session not found", "keep"))
        ELSE Await(rec, SetAllOp(kept))
  /\ ops' = ops + 1
  /\ UNCHANGED <<db, now, issued, used, nextRid, nextSid, removed, granted, workers>>

revokeSave(q) ==
  /\ q.kind = "revoke"
  /\ IF SaveOk(db[q.uid], q.op, q.lv) THEN
       /\ db' = [db EXCEPT ![q.uid] = Saved(db[q.uid], q.op)]
       /\ removed' = removed \cup Removal(db[q.uid].sessions, q.op.arr, "revoke")
       /\ Finish(q, Resp(200, "Session revoked successfully", "keep"))
     ELSE
       /\ Finish(q, Resp(500, "Failed to revoke session", "keep"))
       /\ UNCHANGED <<db, removed>>
  /\ UNCHANGED <<now, issued, used, nextRid, nextSid, ops, granted, workers>>

\* ---- sessions (list the caller's sessions) --------------------------------
\* Variant: res.json({sessions: user.sessions}).
Unsanitized(session) == session

\* user.sessions.map(s => ({deviceInfo, createdAt, lastUsedAt, expiresAt, _id}));
\* the device descriptor, which no handler reads, is left out of the model.
Sanitized(session) ==
  [id |-> session.id, createdAt |-> session.createdAt,
   lastUsedAt |-> session.lastUsedAt, expiresAt |-> session.expiresAt]

\* The authenticate middleware: the bearer token's signature and expiry.
authenticate(access, t) == verifyAccess(access, t)

\* Variant: the handler turns away a caller whose session list is empty.
listSessionsBound(access) ==
  /\ CanStart
  /\ LET ok == authenticate(access, now) /\ access.sub \in Users
         u == IF ok THEN access.sub ELSE 0
         rec == [Arrive("sessions", u) EXCEPT !.bearer = access, !.valid = ok]
     IN IF ~ok \/ db[u].sessions = <<>>
        THEN Reply(rec, Resp(401, "Unauthorized", "keep"))
        ELSE Reply([Loaded(rec, u) EXCEPT
                      !.list = [j \in 1..Len(db[u].sessions) |-> Sanitized(db[u].sessions[j])]],
                   Resp(200, "sessions", "keep"))
  /\ ops' = ops + 1
  /\ UNCHANGED <<db, now, issued, used, nextRid, nextSid, removed, granted, workers>>

listSessions(access) ==
  /\ CanStart
  /\ LET ok == authenticate(access, now)
         u == IF ok THEN access.sub ELSE 0
         rec == [Arrive("sessions", u) EXCEPT !.bearer = access, !.valid = ok]
     IN IF ~ok THEN
          Reply(rec, Resp(401, "Unauthorized", "keep"))
        ELSE IF u \notin Users THEN
          Reply(rec, Resp(404, "User not found", "keep"))
        ELSE
          Reply([Loaded(rec, u) EXCEPT
                   !.list = [j \in 1..Len(db[u].sessions) |-> Sanitized(db[u].sessions[j])]],
                Resp(200, "sessions", "keep"))
  /\ ops' = ops + 1
  /\ UNCHANGED <<db, now, issued, used, nextRid, nextSid, removed, granted, workers>>

\* ---- me (the caller's own record) -----------------------------------------
\* User.findById(req.user.id).select("-passwordHash -sessions"): a read.
me(access) ==
  /\ CanStart
  /\ LET ok == authenticate(access, now)
         u == IF ok THEN access.sub ELSE 0
         rec == [Arrive("me", u) EXCEPT !.bearer = access, !.valid = ok]
     IN IF ~ok THEN
          Reply(rec, Resp(401, "Unauthorized", "keep"))
        ELSE IF u \notin Users THEN
          Reply(rec, Resp(404, "User not found", "keep"))
        ELSE
          Reply([rec EXCEPT !.role = db[u].role], Resp(200, "user", "keep"))
  /\ ops' = ops + 1
  /\ UNCHANGED <<db, now, issued, used, nextRid, nextSid, removed, granted, workers>>

\* ---- register (email + password) ------------------------------------------
\* new User({email, passwordHash, role: role || <default>, registerDate})
NewEmailUser(role, default) ==
  [email |-> TRUE, passwordHash |-> TRUE, role |-> IF role = "" THEN default ELSE role]

\* The document user.save() inserts for a validated new User.
Inserted(doc, email) ==
  [email |-> email, role |-> doc.role, passwordHash |-> doc.passwordHash,
   sessions |-> <<>>, v |-> 0]

\* User.findOne({email}): the stored principals with that address.
FindByEmail(email) == {u \in Users : db[u].email = email}

\* The unique index on email (user.model.js 13-19) rejects the insert of a
\* second document with a stored address (E11000 duplicate key).
DuplicateKey(email) == FindByEmail(email) # {}

\* The _id of the next inserted document.
NewId == Cardinality(Users) + 1

InsertOp == [NoOp EXCEPT !.type = "insert"]

\* email: the address as the request spells it, of principal 1 or the one
\* nobody owns at the start; password: "longenough", "short" or "" (missing).
\* kind "register": the controller's handler (default role "customer", the
\* response carries an access token); kind "routesRegister": the handler of
\* the routes file (default role "user", no try block, no token).  The
\* handler runs to `await User.findOne`, answers what it can answer without a
\* write, and goes on to hashPassword and `await user.save()`.
Registration(kind, email, password, role, default) ==
  /\ CanStart
  /\ LET rec == [Arrive(kind, email.addr) EXCEPT
                   !.valid = (password = "longenough"), !.given = (password # "")]
         doc == NewEmailUser(role, default)
     IN IF password = "" THEN
          Reply(rec, Resp(400, "Email and password are required", "keep"))
        ELSE IF password = "short" THEN
          Reply(rec, Resp(400, "Password must be at least 8 characters long", "keep"))
        ELSE IF FindByEmail(toLowerCase(email)) # {} THEN
          Reply(rec, Resp(409, "User already exists with this email", "keep"))
        ELSE
          Await([rec EXCEPT !.role = doc.role], InsertOp)
  /\ ops' = ops + 1
  /\ UNCHANGED <<db, now, issued, used, nextRid, nextSid, removed, granted, workers>>

\* `await user.save()` of a register handler and the response.  The save
\* validates the document, then inserts it; a ValidationError or a duplicate
\* key error goes to the catch block of the controller's handler and leaves
\* the handler of the routes file without a response of its own.
registerSave(q) ==
  /\ q.kind \in {"register", "routesRegister"}
  /\ LET doc == [email |-> TRUE, passwordHash |-> TRUE, role |-> q.role]
         access == signAccess(NewId, q.role, now)
     IN IF ~ValidUser(doc) \/ DuplicateKey(Address(q.uid)) THEN
          /\ \E resp \in (IF q.kind = "register"
                            THEN {Resp(500, "Registration failed", "keep")}
                            ELSE Unhandled) : Finish(q, resp)
          /\ UNCHANGED <<db, granted>>
        ELSE
          /\ db' = [u \in Users \cup {NewId} |->
                      IF u = NewId THEN Inserted(doc, Address(q.uid)) ELSE db[u]]
          /\ IF q.kind = "register" THEN
               /\ granted' = granted \cup {access}
               /\ last' = Done([q EXCEPT !.access = access],
                               [Resp(201, "User registered successfully", "keep") EXCEPT
                                  !.access = access, !.body = {access}])
               /\ req' = req \ {q}
             ELSE
               /\ UNCHANGED granted
               /\ Finish(q, Resp(201, "User registered successfully", "keep"))
  /\ UNCHANGED <<now, issued, used, nextRid, nextSid, ops, removed, workers>>

register(email, password, role) ==
  Registration("register", email, password, role, "customer")

routesRegister(email, password, role) ==
  Registration("routesRegister", email, password, role, "user")

\* ---- generate-card ----------------------------------------------------------
\* text: whether the request carries a description; ai: what the extraction
\* of the card yields ("card", "incomplete": name or profession missing,
\* "error": the call or the parse failed).  A complete card is saved as a
\* Worker and User.findByIdAndUpdate(req.user.id, {workerProfile, role:
\* "worker"}) links it; the update is one atomic write that leaves __v alone.
generateCard(access, text, ai) ==
  /\ CanStart
  /\ LET ok == authenticate(access, now)
         u == IF ok THEN access.sub ELSE 0
         rec == [Arrive("generateCard", u) EXCEPT
                   !.bearer = access, !.valid = ok, !.given = text]
     IN IF ~ok THEN
          /\ Reply(rec, Resp(401, "Unauthorized", "keep"))
          /\ UNCHANGED <<db, workers>>
        ELSE IF ~text THEN
          /\ Reply(rec, Resp(400, "Missing text description", "keep"))
          /\ UNCHANGED <<db, workers>>
        ELSE IF ai = "error" THEN
          /\ Reply(rec, Resp(500, "AI failed to extract details", "keep"))
          /\ UNCHANGED <<db, workers>>
        ELSE IF ai = "incomplete" THEN
          /\ Reply(rec, Resp(400, "AI failed to extract required details", "keep"))
          /\ UNCHANGED <<db, workers>>
        ELSE
          /\ workers' = Append(workers, NewWorker(u))
          /\ db' = IF u \in Users THEN [db EXCEPT ![u].role = "worker"] ELSE db
          /\ Reply([rec EXCEPT !.role = "worker"],
                   Resp(201, "Worker card generated successfully", "keep"))
  /\ ops' = ops + 1
  /\ UNCHANGED <<now, issued, used, nextRid, nextSid, removed, granted>>

\* ---- POST /:id/flag ---------------------------------------------------------
FLAG_THRESHOLD == 3

DeleteOp == [NoOp EXCEPT !.type = "delete"]
SaveWorkerOp == [NoOp EXCEPT !.type = "saveWorker"]
UpdateOp == [NoOp EXCEPT !.type = "update"]

\* worker.save() of a document that is no longer stored matches nothing, the
\* outcomes a build can produce: Mongoose rejects with DocumentNotFoundError
\* and the catch block answers, or (older releases) resolves.
SaveOfMissing == {Resp(500, "Server error", "keep"), Resp(200, "Worker flagged", "keep")}

\* id: the worker named by the path, 0 for the id of no worker; reason: is
\* the key present in the body.  The handler loads the worker, counts the
\* flag in memory and goes on to `await Worker.findByIdAndDelete(id)` or to
\* `await worker.save()`.
flagWorker(access, id, reason) ==
  /\ CanStart
  /\ LET ok == authenticate(access, now)
         u == IF ok THEN access.sub ELSE 0
         rec == [Arrive("flag", u) EXCEPT
                   !.bearer = access, !.valid = ok, !.given = reason, !.sid = id]
     IN IF ~ok THEN
          Reply(rec, Resp(401, "Unauthorized", "keep"))
        ELSE IF ~reason THEN
          Reply(rec, Resp(400, "Reason is required", "keep"))
        ELSE IF ~WorkerExists(id) THEN
          Reply(rec, Resp(404, "Worker not found", "keep"))
        ELSE
          Await([rec EXCEPT !.flags = workers[id].flags + 1],
                IF workers[id].flags + 1 >= FLAG_THRESHOLD THEN DeleteOp ELSE SaveWorkerOp)
  /\ ops' = ops + 1
  /\ UNCHANGED <<db, now, issued, used, nextRid, nextSid, removed, granted, workers>>

\* The delete or the save of a flag request and the response.  The save
\* writes the count of the in-memory document and pushes the reason.
flagSave(q) ==
  /\ q.kind = "flag"
  /\ IF q.op.type = "delete" THEN
       /\ workers' = [workers EXCEPT ![q.sid].stored = FALSE]
       /\ Finish(q, Resp(200, "Worker removed", "keep"))
     ELSE IF ~WorkerExists(q.sid) THEN
       /\ \E resp \in SaveOfMissing : Finish(q, resp)
       /\ UNCHANGED workers
     ELSE
       /\ workers' = [workers EXCEPT ![q.sid].flags = q.flags, ![q.sid].reasons = @ + 1]
       /\ Finish(q, Resp(200, "Worker flagged", "keep"))
  /\ UNCHANGED <<db, now, issued, used, nextRid, nextSid, ops, removed, granted>>

\* ---- PUT /:id ---------------------------------------------------------------
\* The value of the key "flags" in the body of an update, NoFlags for a body
\* without the key.
NoFlags == 0 - 1

\* id: the worker named by the path; flags: the key "flags" of the body,
\* which the handler hands to findByIdAndUpdate with the other keys.
updateWorker(access, id, flags) ==
  /\ CanStart
  /\ LET ok == authenticate(access, now)
         u == IF ok THEN access.sub ELSE 0
         rec == [Arrive("update", u) EXCEPT
                   !.bearer = access, !.valid = ok, !.sid = id, !.flags = flags]
     IN IF ~ok THEN
          Reply(rec, Resp(401, "Unauthorized", "keep"))
        ELSE IF ~WorkerExists(id) THEN
          Reply(rec, Resp(404, "Worker not found", "keep"))
        ELSE IF workers[id].createdBy # u /\ access.role # "admin" THEN
          Reply(rec, Resp(403, "Not authorized to update this worker", "keep"))
        ELSE
          Await(rec, UpdateOp)
  /\ ops' = ops + 1
  /\ UNCHANGED <<db, now, issued, used, nextRid, nextSid, removed, granted, workers>>

\* `await Worker.findByIdAndUpdate(id, updates, {new: true, runValidators:
\* true})` and the response; a worker deleted since the load is answered with
\* worker: null.
updateSave(q) ==
  /\ q.kind = "update"
  /\ workers' = IF WorkerExists(q.sid) /\ q.flags # NoFlags
                THEN [workers EXCEPT ![q.sid].flags = q.flags]
                ELSE workers
  /\ Finish(q, Resp(200, "success", "keep"))
  /\ UNCHANGED <<db, now, issued, used, nextRid, nextSid, ops, removed, granted>>

\* ---- the system ------------------------------------------------------------
OtpInputs == {HARD_CODED_OTP, "000000"}
RoleInputs == {"", "customer"}
PasswordInputs == {"good", "bad", ""}
TokenInputs == issued \cup {NoToken, BadToken, ForgedToken}

\* Session ids a client asks to revoke: of a device that sends requests, of a
\* session created since, of another principal's session, or 0, the id of no
\* session.
SessionIdInputs ==
  {0, OtherSid} \cup {i \in 1..(nextSid - 1) : i > SessionCap \/ InitToken(i) \in issued}

StartLogin ==
  \E mobile \in BOOLEAN, otp \in OtpInputs, role \in RoleInputs : login(mobile, otp, role)
\* The principals whose clients send requests: principal 1 and a principal
\* registered since the start.
Clients == Actors \cup (Users \ InitUsers)
\* Addresses a login is tried for: a client's, or 0, the address of nobody.
EmailInputs == Clients \cup {0}
RegisterEmails == {Address(1), Capitals(1), Address(NewUser), Capitals(NewUser)}
RegisterPasswords == {"longenough", "short", ""}
RegisterRoles == {"", "customer", "admin"}
AiOutcomes == {"card", "incomplete", "error"}

StartEmailLogin ==
  \E email \in EmailInputs, password \in PasswordInputs : emailLogin(email, password)
StartRoutesLogin ==
  \E email \in EmailInputs, password \in PasswordInputs : routesLogin(email, password)
StartRegister ==
  \E email \in RegisterEmails, password \in RegisterPasswords, role \in RegisterRoles :
    register(email, password, role)
StartRoutesRegister ==
  \E email \in RegisterEmails, password \in RegisterPasswords, role \in RegisterRoles :
    routesRegister(email, password, role)
AccessInputs == granted \cup {NoAccess, BadAccess}
StartSessions == \E access \in AccessInputs : listSessions(access)
StartMe == \E access \in AccessInputs : me(access)
StartRefresh == \E tok \in TokenInputs : refresh(tok)
StartLogout == \E tok \in TokenInputs : logout(tok)
StartRevoke == \E u \in Clients, sessionId \in SessionIdInputs : revokeSession(u, sessionId)
StartGenerateCard ==
  \E access \in AccessInputs, text \in BOOLEAN, ai \in AiOutcomes :
    generateCard(access, text, ai)
\* Workers a request names: a stored or deleted one, or 0, the id of none.
WorkerIds == 0..Len(workers)
BodyFlags == {NoFlags, 0, FLAG_THRESHOLD}
StartFlag ==
  \E access \in AccessInputs, id \in WorkerIds, reason \in BOOLEAN :
    flagWorker(access, id, reason)
StartUpdate ==
  \E access \in AccessInputs, id \in WorkerIds, flags \in BodyFlags :
    updateWorker(access, id, flags)
SaveFlag == \E q \in req : flagSave(q)
SaveUpdate == \E q \in req : updateSave(q)
SaveRegister == \E q \in req : registerSave(q)
SaveLogin == \E q \in req : loginSave(q)
SaveRefresh == \E q \in req : refreshSave(q)
SaveLogout == \E q \in req : logoutSave(q)
SaveRevoke == \E q \in req : revokeSave(q)

\* Requests of the handlers, interleaved at their awaits.  The register
\* handler of the routes file runs next to the controller's in SpecRegister
\* and SpecRole.
Next ==
  \/ StartLogin
  \/ StartEmailLogin
  \/ StartRoutesLogin
  \/ StartRefresh
  \/ StartLogout
  \/ StartRevoke
  \/ StartSessions
  \/ StartRegister
  \/ StartGenerateCard
  \/ StartMe
  \/ SaveRegister
  \/ SaveLogin
  \/ SaveRefresh
  \/ SaveLogout
  \/ SaveRevoke
  \/ Tick

Spec == Init /\ [][Next]_vars

\* The handlers that write sessions, one request at a time: a request arrives
\* only when none is in flight.
Quiet == req = {}

NextSeq ==
  \/ Quiet /\ StartLogin
  \/ Quiet /\ StartEmailLogin
  \/ Quiet /\ StartRoutesLogin
  \/ Quiet /\ StartRefresh
  \/ Quiet /\ StartLogout
  \/ Quiet /\ StartRevoke
  \/ SaveLogin
  \/ SaveRefresh
  \/ SaveLogout
  \/ SaveRevoke
  \/ Tick

SpecSeq == Init /\ [][NextSeq]_vars

\* Refresh requests only, interleaved, at one instant: the devices of a
\* principal refreshing at the same time.
NextRefresh ==
  \/ StartRefresh
  \/ SaveRefresh

SpecRefresh == Init /\ [][NextRefresh]_vars

\* Logout requests and password logins, interleaved: a login's push advances
\* the version a logout in flight will test.
NextLogout ==
  \/ StartLogout
  \/ SaveLogout
  \/ StartEmailLogin
  \/ SaveLogin

SpecLogout == Init /\ [][NextLogout]_vars

\* Requests that list, revoke, log out and refresh, one at a time.
NextList ==
  \/ Quiet /\ StartSessions
  \/ Quiet /\ StartRevoke
  \/ SaveRevoke
  \/ Quiet /\ StartLogout
  \/ SaveLogout
  \/ Quiet /\ StartRefresh
  \/ SaveRefresh
  \/ Tick

SpecList == Init /\ [][NextList]_vars

\* Requests that create principals, rewrite roles and log in, one at a time.
NextRole ==
  \/ Quiet /\ StartRegister
  \/ Quiet /\ StartRoutesRegister
  \/ SaveRegister
  \/ Quiet /\ StartGenerateCard
  \/ Quiet /\ StartLogin
  \/ Quiet /\ StartEmailLogin
  \/ SaveLogin
  \/ Tick

SpecRole == Init /\ [][NextRole]_vars

\* Refresh requests and password logins, interleaved; a store operation that
\* was started settles, and the event loop then runs the rest of its handler.
NextLive ==
  \/ StartRefresh
  \/ SaveRefresh
  \/ StartEmailLogin
  \/ SaveLogin

SpecLive ==
  Init /\ [][NextLive]_vars /\ WF_vars(SaveRefresh) /\ WF_vars(SaveLogin)

\* Card generation and refresh, interleaved, at one instant: the role of a
\* principal changes while its refresh requests are in flight.
NextCard ==
  \/ StartGenerateCard
  \/ StartRefresh
  \/ SaveRefresh

SpecCard == Init /\ [][NextCard]_vars

\* Registrations, interleaved: requests for the same address between the
\* existence check and the save.
NextRegister ==
  \/ StartRegister
  \/ StartRoutesRegister
  \/ SaveRegister

SpecRegister == Init /\ [][NextRegister]_vars

\* Flag and update requests for the workers, interleaved.
NextFlag ==
  \/ StartFlag
  \/ SaveFlag
  \/ StartUpdate
  \/ SaveUpdate

SpecFlag == Init /\ [][NextFlag]_vars

\* Flag requests alone, interleaved.
NextFlagOnly ==
  \/ StartFlag
  \/ SaveFlag

SpecFlagOnly == Init /\ [][NextFlagOnly]_vars

\* The life of a session: password logins, refresh, logout, revoke, the
\* reading handlers and the clock, one request at a time.
NextLife ==
  \/ Quiet /\ StartEmailLogin
  \/ SaveLogin
  \/ Quiet /\ StartRefresh
  \/ SaveRefresh
  \/ Quiet /\ StartLogout
  \/ SaveLogout
  \/ Quiet /\ StartRevoke
  \/ SaveRevoke
  \/ Quiet /\ StartSessions
  \/ Quiet /\ StartMe
  \/ Tick

SpecLife == Init /\ [][NextLife]_vars

\* ==== properties ==========================================================
Ids(sessions) == {sessions[j].id : j \in 1..Len(sessions)}
SessionById(sessions, id) == sessions[CHOOSE j \in 1..Len(sessions) : sessions[j].id = id]
Stored(u) == db[u].sessions

IsLogin(rec) == rec.kind \in {"login", "emailLogin", "routesLogin"}
Succeeded(rec) ==
  /\ rec.resp.status = 200
  /\ rec.resp.cookie = "set"
  /\ rec.resp.refresh # NoToken
  /\ rec.resp.access # NoAccess
NoTokens(rec) == rec.resp.refresh = NoToken /\ rec.resp.access = NoAccess
\* The session a refresh request matched in the document it read.
Matched(rec) == SessionById(rec.loaded, rec.sid)
FoundSession(rec) == rec.kind = "refresh" /\ rec.valid /\ rec.sid # 0

\* C1: a refresh with a token that an earlier, finished refresh has already
\* rotated away fails with "Session not found" and hands out no token.
C1_SingleUse ==
  (last.kind = "refresh" /\ last.valid /\ last.reuse) =>
    (last.resp.msg = "Session not found" /\ NoTokens(last))

\* C2: of two refresh requests in flight together with the same token, at most
\* one succeeds: none succeeds with a token that was unused when it arrived,
\* was carried by a request in flight at its store read, and had been rotated
\* away by the time of its own save.
C2_OneWinner ==
  ~(/\ last.kind = "refresh"
    /\ Succeeded(last)
    /\ ~last.reuse
    /\ last.tok.rid \in last.peers
    /\ last.dup)

\* C3: refresh requests of different devices of one principal, interleaved in
\* any order: every rotation is saved and answered with success, the matched
\* session then stores the hash of the correlation id just returned, and every
\* other session is as it was just before the save (so a rotation another
\* request saved in between is kept).
C3_RotationsKept ==
  (last.kind = "refresh" /\ last.op.type = "setIdx") =>
    LET u == last.uid
        i == last.op.i
    IN /\ Succeeded(last)
       /\ last.resp.refresh = last.newTok
       /\ Len(Stored(u)) = Len(last.pre)
       /\ Stored(u)[i].id = last.sid
       /\ Stored(u)[i].hash = cryptoHash(last.resp.refresh.rid)
       /\ \A j \in 1..Len(last.pre) : j # i => Stored(u)[j] = last.pre[j]

\* Two devices refreshed together and both rotations are stored.
C3_Witness ==
  /\ last.kind = "refresh"
  /\ Succeeded(last)
  /\ \E rid \in last.peers :
       /\ rid # last.tok.rid
       /\ rid \in used
       /\ \E t \in issued, j \in 1..Len(Stored(last.uid)) :
            /\ t.rid \notin used
            /\ t # last.newTok
            /\ Stored(last.uid)[j].hash = cryptoHash(t.rid)
            /\ Stored(last.uid)[j].lastUsedAt = now
            /\ Stored(last.uid)[j].id # last.sid

\* C4: a successful login on top of 5 sessions leaves 5, the new one among
\* them, and drops exactly the session created earliest; on top of fewer than
\* 5 it drops none.
C4_SessionCap ==
  (IsLogin(last) /\ Succeeded(last)) =>
    LET old == last.pre
        new == Stored(last.uid)
        gone == {j \in 1..Len(old) : old[j].id \notin Ids(new)}
    IN /\ last.sid \in Ids(new)
       /\ last.sid \notin Ids(old)
       /\ \A j \in 1..Len(old) : j \notin gone => old[j] \in {new[k] : k \in 1..Len(new)}
       /\ IF Len(old) >= SessionCap
          THEN /\ Len(new) = SessionCap
               /\ Cardinality(gone) = 1
               /\ \A j \in gone, k \in 1..Len(old) : old[j].createdAt <= old[k].createdAt
          ELSE /\ Len(new) = Len(old) + 1
               /\ gone = {}

C4_Witness ==
  /\ IsLogin(last)
  /\ Succeeded(last)
  /\ Len(last.pre) = SessionCap
  /\ \E k \in 1..SessionCap : last.pre[k].createdAt > last.pre[1].createdAt

\* C5: no principal ever holds more than 5 stored sessions.
C5_AtMostCap == \A u \in Users : Len(Stored(u)) <= SessionCap

\* C6: a refresh whose token is valid and whose session has expiresAt in the
\* past is answered "Session expired" without tokens, and afterwards the store
\* holds the principal's sessions without that one, the others unchanged.
C6_ExpiredRemoved ==
  (FoundSession(last) /\ Matched(last).expiresAt < last.at) =>
    /\ last.resp.status = 401
    /\ last.resp.msg = "Session expired"
    /\ NoTokens(last)
    /\ last.sid \notin Ids(Stored(last.uid))
    /\ Stored(last.uid) = SelectSeq(last.pre, LAMBDA s : s.id # last.sid)
    /\ Len(Stored(last.uid)) = Len(last.pre) - 1

C6_Witness ==
  /\ FoundSession(last)
  /\ Matched(last).expiresAt < last.at
  /\ last.resp.msg = "Session expired"
  /\ Len(Stored(last.uid)) >= 1

\* C7 as stated: a refresh presented when now >= expiresAt, the instant of
\* expiry included, is rejected as expired.
C7_ExpiredFromExpiry ==
  (FoundSession(last) /\ Matched(last).expiresAt <= last.at) =>
    (last.resp.msg = "Session expired" /\ NoTokens(last))

\* C7 as amended: a session counts as expired exactly when now > expiresAt; a
\* refresh presented at now = expiresAt is rotated and answered with success.
C7_ExpiredAfterExpiry ==
  FoundSession(last) =>
    /\ (Matched(last).expiresAt < last.at) <=> (last.resp.msg = "Session expired")
    /\ (Matched(last).expiresAt >= last.at) <=> Succeeded(last)

C7_Witness ==
  /\ FoundSession(last)
  /\ Matched(last).expiresAt = last.at
  /\ Succeeded(last)

\* C8: every stored session expires at its creation time plus the fixed
\* lifetime; a successful refresh leaves id, createdAt and expiresAt of every
\* session as they were, and none succeeds after the matched session's expiry.
C8_LifetimeFixed ==
  /\ \A u \in Users : \A j \in 1..Len(Stored(u)) :
       Stored(u)[j].expiresAt = Stored(u)[j].createdAt + SessionTTL
  /\ (last.kind = "refresh" /\ Succeeded(last)) =>
       /\ Len(Stored(last.uid)) = Len(last.pre)
       /\ \A j \in 1..Len(last.pre) :
            /\ Stored(last.uid)[j].id = last.pre[j].id
            /\ Stored(last.uid)[j].createdAt = last.pre[j].createdAt
            /\ Stored(last.uid)[j].expiresAt = last.pre[j].expiresAt
       /\ last.at <= Matched(last).expiresAt

\* A session rotated again with a token that a refresh of this run returned.
C8_Witness ==
  /\ last.kind = "refresh"
  /\ Succeeded(last)
  /\ last.tok.rid > StaleRid
  /\ last.sid = 1
  /\ SessionById(Stored(1), 1).lastUsedAt > SessionById(Stored(1), 1).createdAt + 1

\* C9: a successful login appends exactly one session, at the end of the
\* principal's list, whose hash is the hash of the fresh correlation id of the
\* returned refresh token; the access token names the principal and the role
\* stored for it.
C9_LoginAppends ==
  (IsLogin(last) /\ Succeeded(last)) =>
    LET u == last.uid
        new == Stored(u)
        fresh == {j \in 1..Len(new) : new[j].id \notin Ids(last.pre)}
        rid == last.resp.refresh.rid
    IN /\ fresh = {Len(new)}
       /\ new[Len(new)].hash = cryptoHash(rid)
       /\ \A j \in 1..(Len(new) - 1) : new[j].hash # cryptoHash(rid)
       /\ \A t \in issued : t.rid = rid => t = last.resp.refresh
       /\ rid \notin used
       /\ last.resp.refresh.sub = u
       /\ last.resp.access.sub = u
       /\ last.resp.access.role = db[u].role
       /\ last.resp.access.sig = "ok"

C9_Witness ==
  /\ last.kind = "emailLogin"
  /\ Succeeded(last)
  /\ last.uid = 1
  /\ Len(Stored(1)) = Len(last.pre) + 1

\* C10: a mobile + OTP login with the valid passcode for a number without
\* principal creates the principal, stores one session for it and answers with
\* success, the access token carrying the stored role.
C10_MobileLogin ==
  (last.kind = "login" /\ last.valid) =>
    /\ Succeeded(last)
    /\ last.uid \in Users
    /\ Len(Stored(last.uid)) = 1
    /\ last.resp.access.role = db[last.uid].role

\* The request that responds in this step.
Responds(kind) == last'.pc = "done" /\ last'.kind = kind /\ last'.n # last.n

\* C11: a login or emailLogin that ends without success (missing fields, wrong
\* passcode, unknown email, wrong password, a rejected save) leaves the
\* session list of every principal as it was, sets no refresh cookie and
\* hands out no token.
C11_FailedLoginNoSession ==
  [][((Responds("login") \/ Responds("emailLogin")) /\ ~Succeeded(last')) =>
       /\ db' = db
       /\ last'.resp.cookie = "keep"
       /\ NoTokens(last')
       /\ last'.resp.status \in {400, 401, 500}
       /\ issued' = issued]_vars

\* A wrong password for principal 1, which holds sessions, was turned down.
C11_Witness ==
  /\ last.kind = "emailLogin"
  /\ last.pc = "done"
  /\ last.uid = 1
  /\ ~last.valid
  /\ last.resp.status = 401
  /\ Len(Stored(1)) >= 2

\* A password login turned down for its identity or its proof.
PasswordFail(rec) ==
  /\ rec.kind \in {"emailLogin", "routesLogin"}
  /\ rec.pc = "done"
  /\ rec.given
  /\ ~Succeeded(rec)
  /\ rec.uid \notin Users \/ ~rec.valid
UnknownIdentity(rec) == rec.uid \notin Users
WrongProof(rec) == rec.uid \in Users /\ ~rec.valid

\* C12: of two failing password logins to the same handler, one for an
\* address without principal and one with a wrong password for an existing
\* principal, the responses have the same status and the same body.
C12_NoEnumeration ==
  [][(/\ PasswordFail(last)
      /\ PasswordFail(last')
      /\ last'.kind = last.kind
      /\ \/ UnknownIdentity(last) /\ WrongProof(last')
         \/ WrongProof(last) /\ UnknownIdentity(last'))
     => (last'.resp.status = last.resp.status /\ last'.resp.msg = last.resp.msg)]_vars

Hashes(sessions) == {sessions[j].hash : j \in 1..Len(sessions)}
LoggedOutOk(rec) ==
  rec.resp.status = 200 /\ rec.resp.msg = "Logged out successfully"
NotFound(rec) ==
  rec.resp.status \in {401, 404} /\ rec.resp.msg = "Session not found" /\ NoTokens(rec)

\* C13: a logout whose token validates leaves the owner's sessions without the
\* one whose hash is the hash of the token's correlation id and with every
\* other one unchanged; a later refresh with that token is answered
\* "Session not found".
C13_LogoutRemoves ==
  /\ (last.kind = "logout" /\ last.pc = "done" /\ last.valid /\ last.uid \in Users) =>
       /\ LoggedOutOk(last)
       /\ cryptoHash(last.tok.rid) \notin Hashes(Stored(last.uid))
       /\ Stored(last.uid) =
            SelectSeq(last.pre, LAMBDA x : x.hash # cryptoHash(last.tok.rid))
  /\ (last.kind = "refresh" /\ last.pc = "done" /\ last.valid /\ "logout" \in last.gone) =>
       NotFound(last)

\* A device logged out, its session went while others stayed, and its token
\* was then refused.
C13_Witness ==
  /\ last.kind = "refresh"
  /\ last.valid
  /\ "logout" \in last.gone
  /\ NotFound(last)
  /\ Len(Stored(last.uid)) >= 1
  /\ \E x \in removed : x.hash = cryptoHash(last.tok.rid) /\ x.by = "logout"

\* C14: a logout without token, or with a token that fails validation (bad
\* signature, expired), answers with success and leaves every principal's
\* stored sessions as they were.
C14_InvalidLogout ==
  [][(Responds("logout") /\ ~last'.valid) =>
       /\ LoggedOutOk(last')
       /\ db' = db
       /\ removed' = removed]_vars

\* A logout with a token issued earlier and expired since was answered with
\* success while the session of that token stayed stored.
C14_Witness ==
  /\ last.kind = "logout"
  /\ last.pc = "done"
  /\ ~last.valid
  /\ last.tok \in issued
  /\ LoggedOutOk(last)
  /\ cryptoHash(last.tok.rid) \in Hashes(Stored(last.tok.sub))

\* C15: every logout answers with success, the second one with the same token
\* too, and a logout whose token's session an earlier logout removed sends no
\* write and leaves every principal's stored sessions as they were.
C15_LogoutIdempotent ==
  [][Responds("logout") =>
       /\ LoggedOutOk(last')
       /\ "logout" \in last'.gone =>
            /\ db' = db
            /\ removed' = removed
            /\ last'.op.type = "none"]_vars

\* The second logout with a still valid token, other sessions being stored.
C15_Witness ==
  /\ last.kind = "logout"
  /\ last.pc = "done"
  /\ last.valid
  /\ "logout" \in last.gone
  /\ LoggedOutOk(last)
  /\ Len(Stored(last.uid)) >= 1

\* C16: every logout ends with the refresh cookie cleared: without token,
\* with an invalid token, with no matching session, with the matching session
\* removed, and with its save rejected.
C16_LogoutClearsCookie ==
  (last.kind = "logout" /\ last.pc = "done") =>
    (last.resp.cookie = "clear" /\ NoTokens(last))

\* A logout whose save was rejected: the session is still stored.
C16_Witness ==
  /\ last.kind = "logout"
  /\ last.pc = "done"
  /\ last.op.type = "setAll"
  /\ cryptoHash(last.tok.rid) \in Hashes(Stored(last.uid))
  /\ last.resp.cookie = "clear"

\* C17: a revoke of a session id the principal holds answers with success and
\* leaves the principal's sessions without that one, every other one unchanged
\* and in the same order; a later listing of the sessions does not contain the
\* id, and a later refresh with the token of the revoked session is answered
\* "Session not found".
C17_RevokeRemoves ==
  /\ (last.kind = "revoke" /\ last.pc = "done" /\ last.sid \in Ids(last.pre)) =>
       /\ last.resp.status = 200
       /\ last.resp.msg = "Session revoked successfully"
       /\ last.sid \notin Ids(Stored(last.uid))
       /\ Len(Stored(last.uid)) = Len(last.pre) - 1
       /\ Stored(last.uid) = SelectSeq(last.pre, LAMBDA x : x.id # last.sid)
  /\ (last.kind = "sessions" /\ last.resp.status = 200) =>
       \A x \in removed : x.by = "revoke" => x.id \notin Ids(last.list)
  /\ (last.kind = "refresh" /\ last.pc = "done" /\ last.valid /\ "revoke" \in last.gone) =>
       NotFound(last)

\* A session was revoked while others stayed, and its token was then refused.
C17_Witness ==
  /\ last.kind = "refresh"
  /\ last.valid
  /\ "revoke" \in last.gone
  /\ NotFound(last)
  /\ Len(Stored(last.uid)) >= 1
  /\ last.tok.rid \notin used

\* C18: a revoke of a session id the principal does not hold (none, already
\* revoked, evicted, or another principal's) is answered "Session not found",
\* sends no write, and leaves every principal's stored sessions as they were.
C18_RevokeAbsent ==
  [][(Responds("revoke") /\ last'.sid \notin Ids(Stored(last'.uid))) =>
       /\ last'.resp.status = 404
       /\ last'.resp.msg = "Session not found"
       /\ last'.op.type = "none"
       /\ db' = db
       /\ removed' = removed]_vars

\* Principal 1 asked to revoke the session of principal 2, which stays stored.
C18_Witness ==
  /\ last.kind = "revoke"
  /\ last.pc = "done"
  /\ last.uid = 1
  /\ last.sid = OtherSid
  /\ last.resp.status = 404
  /\ OtherSid \in Ids(Stored(2))

C20_ListRedacted ==
  (last.kind = "sessions" /\ last.resp.status = 200) =>
    /\ Len(last.list) = Len(Stored(last.uid))
    /\ \A j \in 1..Len(last.list) :
         /\ DOMAIN last.list[j] \subseteq
              {"deviceInfo", "createdAt", "lastUsedAt", "expiresAt", "id"}
         /\ last.list[j].id = Stored(last.uid)[j].id
         /\ last.list[j].createdAt = Stored(last.uid)[j].createdAt
         /\ last.list[j].lastUsedAt = Stored(last.uid)[j].lastUsedAt
         /\ last.list[j].expiresAt = Stored(last.uid)[j].expiresAt

\* A listing of several sessions, one of them rotated since the start.
C20_Witness ==
  /\ last.kind = "sessions"
  /\ last.resp.status = 200
  /\ Len(last.list) >= 2
  /\ \E j \in 1..Len(Stored(last.uid)) : Stored(last.uid)[j].hash = cryptoHash(nextRid - 1)

\* The correlation ids genRefreshId has produced so far, for either principal.
Generated == (1..(nextRid - 1)) \cup {OtherSid}
SessionFields == {"id", "hash", "createdAt", "lastUsedAt", "expiresAt"}

\* C21: every stored session's refreshTokenHash is the sha256 digest of a
\* correlation id that login or refresh generated; a stored session has the
\* fields of sessionSchema only, so none that holds a correlation id or a
\* refresh token, and its other fields are the session id and three dates.
C21_OnlyHashStored ==
  \A u \in Users : \A j \in 1..Len(Stored(u)) :
    LET s == Stored(u)[j]
    IN /\ s.hash \in {cryptoHash(rid) : rid \in Generated}
       /\ s.hash[1] = "sha256"
       /\ DOMAIN s = SessionFields
       /\ \A t \in issued : s.hash # <<"raw", t.rid>>
       /\ s.createdAt \in 0..MaxTime
       /\ s.lastUsedAt \in 0..MaxTime
       /\ s.expiresAt \in 0..(MaxTime + SessionTTL)

\* A login stored a session and a refresh then rotated it: the store holds the
\* digest of the correlation id the refresh returned.
C21_Witness ==
  /\ last.kind = "refresh"
  /\ Succeeded(last)
  /\ last.sid > SessionCap
  /\ SessionById(Stored(last.uid), last.sid).hash = cryptoHash(last.resp.refresh.rid)
  /\ last.resp.refresh.rid = nextRid - 1

\* The sessions of the document a request read that match its token and whose
\* expiry had not passed at the read.
LiveAtLookup(rec) ==
  {j \in 1..Len(rec.loaded) :
     /\ rec.loaded[j].hash = cryptoHash(rec.tok.rid)
     /\ rec.loaded[j].expiresAt >= rec.at}

\* C22: a refresh returns tokens only if its token validated and the document
\* it read for the token's principal held a session with the hash of the
\* token's correlation id whose expiry had not passed; a refresh with a valid
\* token and no such session returns no token and sets no cookie.
C22_LiveSessionNeeded ==
  (last.kind = "refresh" /\ last.pc = "done") =>
    /\ Succeeded(last) =>
         /\ last.valid
         /\ last.uid = last.tok.sub
         /\ LiveAtLookup(last) # {}
         /\ last.sid \in {last.loaded[j].id : j \in LiveAtLookup(last)}
    /\ (last.valid /\ LiveAtLookup(last) = {}) =>
         /\ NoTokens(last)
         /\ last.resp.cookie # "set"
         /\ last.resp.status # 200

\* A refresh with the token an earlier refresh returned found its session and
\* was given tokens; the stale token of the start stays without session.
C22_Witness ==
  /\ last.kind = "refresh"
  /\ Succeeded(last)
  /\ last.tok.rid > StaleRid
  /\ LiveAtLookup(last) # {}
  /\ cryptoHash(StaleRid) \notin Hashes(Stored(last.uid))
  /\ signRefresh(1, StaleRid, 0) \in issued

\* A refresh whose token validated, for a stored principal none of whose
\* sessions carried the hash of the token's correlation id.
NoSessionFor(rec) ==
  /\ rec.kind = "refresh"
  /\ rec.valid
  /\ rec.uid \in Users
  /\ cryptoHash(rec.tok.rid) \notin Hashes(rec.loaded)

\* C23: a refresh whose token has no session (rotated away, revoked, forged)
\* is answered "Session not found", sends no write and leaves the store, the
\* tokens handed out and the record of removed sessions as they were; a
\* refresh with the token a session currently answers to, the session not
\* expired, is given tokens (so the session rotated away from a reused token
\* stays usable).
C23_ReuseRevokesNothing ==
  [][/\ (Responds("refresh") /\ NoSessionFor(last')) =>
          /\ NotFound(last')
          /\ last'.op.type = "none"
          /\ db' = db
          /\ issued' = issued
          /\ used' = used
          /\ removed' = removed
     /\ (Responds("refresh") /\ last'.valid /\ LiveAtLookup(last') # {}) =>
          Succeeded(last')]_vars

\* The token of device 1 was rotated and then presented again: the request
\* was refused and the session of device 1 still stores the hash of the
\* correlation id the rotation returned.
C23_Witness ==
  /\ NoSessionFor(last)
  /\ last.pc = "done"
  /\ last.reuse
  /\ last.tok = InitToken(1)
  /\ NotFound(last)
  /\ 1 \in Ids(Stored(1))
  /\ \E t \in issued :
       /\ t.rid \notin used
       /\ t.rid > StaleRid
       /\ SessionById(Stored(1), 1).hash = cryptoHash(t.rid)
       /\ SessionById(Stored(1), 1).expiresAt >= now

\* C24: every refresh that was given a token and does not end in success
\* (invalid or expired token, unknown principal, no session, expired session,
\* a rejected save) ends with the refresh cookie cleared.
C24_FailureClearsCookie ==
  (last.kind = "refresh" /\ last.pc = "done" /\ last.tok # NoToken /\ ~Succeeded(last)) =>
    last.resp.cookie = "clear"

\* A refresh that was given a token and was turned down by the handler.
RefreshDenied(rec) ==
  /\ rec.kind = "refresh"
  /\ rec.pc = "done"
  /\ rec.tok # NoToken
  /\ rec.resp.status = 401

\* C25: any two refresh requests turned down on the authentication path
\* (invalid token, unknown principal, no session, expired session) are
\* answered with the same status and the same body.
C25_GenericUnauthorized ==
  [][(RefreshDenied(last) /\ RefreshDenied(last')) =>
       (last'.resp.status = last.resp.status /\ last'.resp.msg = last.resp.msg)]_vars

\* C26: any two refresh requests whose tokens have no session, whatever
\* took the session away (a rotation, a revoke, a logout, the cap) or if there
\* never was one (forged correlation id), get the same response, and neither
\* changes the store.
C26_MissingIndistinguishable ==
  [][(NoSessionFor(last) /\ last.pc = "done" /\ Responds("refresh") /\ NoSessionFor(last')) =>
       /\ last'.resp = last.resp
       /\ last'.resp = Resp(401, "Session not found", "clear")
       /\ db' = db]_vars

\* The token of device 1, whose session a login over the cap has evicted, was
\* refused as one without session.
C26_Witness ==
  /\ NoSessionFor(last)
  /\ last.pc = "done"
  /\ last.tok = InitToken(1)
  /\ ~last.reuse
  /\ last.gone = {"login"}
  /\ Len(Stored(1)) = SessionCap
  /\ 1 \notin Ids(Stored(1))
  /\ nextSid - 1 \in Ids(Stored(1))
  /\ NotFound(last)

RefreshFields == {"sub", "rid", "exp", "sig"}
AccessFields == {"sub", "role", "exp", "sig"}

\* C27: a successful login or refresh writes the access token, and no other
\* credential, into the response body and the refresh token, and no other,
\* into the cookie; the body of no response holds a refresh token or a
\* correlation id, the cookie of none an access token, and a response that
\* sets no cookie writes none.
C27_ChannelSeparation ==
  /\ ((IsLogin(last) \/ last.kind = "refresh") /\ Succeeded(last)) =>
       /\ last.resp.body = {last.resp.access}
       /\ last.resp.jar = {last.resp.refresh}
       /\ DOMAIN last.resp.access = AccessFields
       /\ DOMAIN last.resp.refresh = RefreshFields
  /\ \A x \in last.resp.body : "rid" \notin DOMAIN x /\ x \notin issued
  /\ \A x \in last.resp.jar : "role" \notin DOMAIN x /\ x \notin granted
  /\ last.resp.cookie # "set" => last.resp.jar = {}
  /\ \A j \in 1..Len(last.list) : "hash" \notin DOMAIN last.list[j]

\* A refresh answered with an access token in the body and the rotated
\* refresh token in the cookie.
C27_Witness ==
  /\ last.kind = "refresh"
  /\ Succeeded(last)
  /\ last.resp.body = {signAccess(1, "user", now)}
  /\ last.resp.jar = {signRefresh(1, nextRid - 1, now)}
  /\ last.resp.jar \subseteq issued

\* C28: the role of every stored principal is one of the values of the enum
\* of userSchema, whatever role a register or login request names, whatever
\* default those handlers fill in, and after generate-card has rewritten it;
\* a registration whose role is outside the enum stores no principal.
C28_RoleEnumerated ==
  /\ \A u \in Users : db[u].role \in RoleEnum
  /\ (last.kind \in {"register", "routesRegister"} /\ last.resp.status = 201) =>
       (last.uid \in Users /\ db[last.uid].role = last.role /\ last.role \in RoleEnum)
  /\ (last.kind \in {"register", "routesRegister"} /\ last.resp.status \in {0, 500}) =>
       last.uid \notin Users

\* A principal registered without naming a role, stored as "user", logged in
\* and had its role rewritten by generate-card.
C28_Witness ==
  /\ last.kind = "generateCard"
  /\ last.resp.status = 201
  /\ last.uid = NewUser
  /\ NewUser \in Users
  /\ db[NewUser].role = "worker"
  /\ last.bearer.role = "user"

\* The principal a request acts for: the subject of its refresh token, the
\* owner of the address it logs in with, the authenticated user.
ActsFor(rec) == IF rec.kind \in {"refresh", "logout"} THEN rec.tok.sub ELSE rec.uid

\* C29: the session list of a principal changes only in a step in which a
\* login, refresh, logout or revoke acting for that principal responds; a
\* request acting for another principal, a refresh or logout whose token
\* names principal 1 with the correlation id of principal 2's session or a
\* revoke of principal 2's session id by principal 1 included, leaves it as
\* it was.
C29_OwnSessionsOnly ==
  [][\A u \in Users :
       db'[u].sessions # db[u].sessions =>
         /\ last'.pc = "done"
         /\ last'.kind \in {"login", "emailLogin", "routesLogin", "refresh", "logout", "revoke"}
         /\ ActsFor(last') = u
         /\ last'.uid = u
         /\ \A w \in Users \ {u} : db'[w].sessions = db[w].sessions]_vars

\* A refresh presented the token that names principal 1 with the correlation
\* id of principal 2's session: it was refused, and principal 2 still holds
\* its session while principal 1's sessions have changed since the start.
C29_Witness ==
  /\ last.kind = "refresh"
  /\ last.pc = "done"
  /\ last.tok = ForgedToken
  /\ last.valid
  /\ NotFound(last)
  /\ db[2] = OtherDoc
  /\ \E j \in 1..Len(Stored(1)) : Stored(1)[j].hash = cryptoHash(nextRid - 1)

\* The refresh tokens handed out whose session nothing has ended since: not
\* rotated away, not removed by a logout, a revoke, the cap or the expiry test.
LiveTokens == {t \in issued : t.rid \notin used /\ GoneBy(t) = {}}

\* C30: no persisted effect of a request is lost to the save of another
\* request's stale copy, as in every serial execution: the session of every
\* refresh token that was handed out and not ended since is stored under the
\* hash of that token's correlation id, and a logout or revoke that sent a
\* write and answered with success has removed its session.
C30_NoLostUpdate ==
  /\ \A t \in LiveTokens : cryptoHash(t.rid) \in Hashes(Stored(t.sub))
  /\ (last.kind = "logout" /\ last.pc = "done" /\ last.op.type = "setAll" /\ LoggedOutOk(last)) =>
       cryptoHash(last.tok.rid) \notin Hashes(Stored(last.uid))
  /\ (last.kind = "revoke" /\ last.pc = "done" /\ last.resp.status = 200) =>
       last.sid \notin Ids(Stored(last.uid))

\* C31: every refresh request that has reached its save, one whose save is
\* rejected included, is eventually answered (a rejected save with a server
\* error).
C31_RefreshResponds ==
  \A n \in 1..MaxOps :
    (\E q \in req : q.n = n /\ q.kind = "refresh")
      ~> (last.n = n /\ last.pc = "done" /\ last.resp.status # 0)

\* The ids of the sessions that carried the hash of a request's token in the
\* document the request read.
TokenSessions(rec) ==
  {rec.loaded[k].id : k \in {i \in 1..Len(rec.loaded) :
                               rec.loaded[i].hash = cryptoHash(rec.tok.rid)}}

\* The sessions of principal u that the step takes out of its list.
Leaving(u) ==
  {j \in 1..Len(db[u].sessions) : db[u].sessions[j].id \notin Ids(db'[u].sessions)}

\* C32: a session leaves its principal's list only in a step in which a
\* logout with the token of that session, a revoke naming its id, a login
\* over the cap (the first session of the list) or a refresh that found it
\* expired responds; no step of any other handler and no tick of the clock
\* removes a session, one whose expiry has passed included.
C32_RemovedOnlyBy ==
  [][\A u \in Users : \A j \in Leaving(u) :
       LET s == db[u].sessions[j]
       IN /\ last'.pc = "done"
          /\ last'.uid = u
          /\ \/ last'.kind = "logout" /\ s.id \in TokenSessions(last')
             \/ last'.kind = "revoke" /\ s.id = last'.sid
             \/ /\ IsLogin(last')
                /\ Succeeded(last')
                /\ Len(db[u].sessions) >= SessionCap
                /\ j = 1
             \/ /\ last'.kind = "refresh"
                /\ last'.resp.msg = "Session expired"
                /\ s.id \in TokenSessions(last')
                /\ s.expiresAt < last'.at]_vars

\* The session of device 1 expired, was not presented again and is still
\* stored after another device refreshed.
C32_Witness ==
  /\ last.kind = "refresh"
  /\ Succeeded(last)
  /\ last.sid # 1
  /\ 1 \in Ids(Stored(1))
  /\ SessionById(Stored(1), 1).expiresAt < now

\* The sessions of principal u that the step keeps, as pairs of their
\* positions before and after it.
Kept(u) ==
  {p \in (1..Len(db[u].sessions)) \X (1..Len(db'[u].sessions)) :
     db[u].sessions[p[1]].id = db'[u].sessions[p[2]].id}

\* C33: the hash and the last-used time of a stored session change in the
\* same step or not at all: a step that replaces the hash of a session
\* stores the time of the rotating refresh as its last-used time, a step
\* that changes the last-used time replaces the hash, and the stored hash of
\* a refresh token handed out goes with the last-used time of that token's
\* issue.
C33_RotationAtomic ==
  [][/\ \A u \in Users : \A p \in Kept(u) :
          LET old == db[u].sessions[p[1]]
              new == db'[u].sessions[p[2]]
          IN /\ new.hash # old.hash =>
                  /\ last'.kind = "refresh"
                  /\ Succeeded(last')
                  /\ new.hash = cryptoHash(last'.resp.refresh.rid)
                  /\ new.lastUsedAt = last'.at
             /\ new.lastUsedAt # old.lastUsedAt => new.hash # old.hash
     /\ \A t \in issued' : \A j \in 1..Len(db'[t.sub].sessions) :
          db'[t.sub].sessions[j].hash = cryptoHash(t.rid) =>
            db'[t.sub].sessions[j].lastUsedAt = t.exp - RefreshTTL]_vars

\* A rotation at a later instant than the session's previous use: the store
\* holds the new hash with the new last-used time.
C33_Witness ==
  /\ last.kind = "refresh"
  /\ Succeeded(last)
  /\ SessionById(last.pre, last.sid).lastUsedAt < last.at
  /\ SessionById(Stored(last.uid), last.sid).lastUsedAt = last.at
  /\ SessionById(Stored(last.uid), last.sid).hash = cryptoHash(last.resp.refresh.rid)
  /\ SessionById(last.pre, last.sid).hash = cryptoHash(last.tok.rid)

\* C34: the step in which a refresh is answered with tokens leaves the
\* number and the order of the principal's sessions, the id, creation time
\* and expiry of the matched session, every field of every other session,
\* the principal's role and password hash, and the documents of the other
\* principals as they were; of the matched session it writes the hash and
\* the last-used time.
C34_RefreshFrame ==
  [][(Responds("refresh") /\ Succeeded(last')) =>
       LET u == last'.uid
           old == db[u].sessions
           new == db'[u].sessions
       IN /\ DOMAIN db' = DOMAIN db
          /\ \A w \in Users \ {u} : db'[w] = db[w]
          /\ db'[u].role = db[u].role
          /\ db'[u].passwordHash = db[u].passwordHash
          /\ Len(new) = Len(old)
          /\ \A j \in 1..Len(old) :
               IF old[j].id = last'.sid
               THEN /\ new[j] = [old[j] EXCEPT !.hash = cryptoHash(last'.resp.refresh.rid),
                                               !.lastUsedAt = last'.at]
                    /\ new[j].hash # old[j].hash
               ELSE new[j] = old[j]]_vars

\* The first of several sessions was rotated some time after its creation.
C34_Witness ==
  /\ last.kind = "refresh"
  /\ Succeeded(last)
  /\ Len(Stored(last.uid)) >= 2
  /\ Stored(last.uid)[1].id = last.sid
  /\ Stored(last.uid)[1].createdAt < Stored(last.uid)[1].lastUsedAt
  /\ Stored(last.uid)[2] = last.pre[2]

\* No two sessions of a principal store the same hash.
DistinctHashes(sessions) ==
  \A i, j \in 1..Len(sessions) : i # j => sessions[i].hash # sessions[j].hash

\* C35: before and after every step no two sessions of a principal store the
\* same hash (so the hash of a refresh token equals the stored hash of at most
\* one session of its principal), and a logout that is answered removes at
\* most one session.
C35_HashesDistinct ==
  [][/\ \A u \in Users : DistinctHashes(db[u].sessions)
     /\ \A u \in DOMAIN db' : DistinctHashes(db'[u].sessions)
     /\ (Responds("logout") /\ last'.resp.status = 200 /\ last'.uid \in Users) =>
          Len(db[last'.uid].sessions) - Len(db'[last'.uid].sessions) \in {0, 1}]_vars

\* A principal holds sessions of two logins and of a rotation at once, and a
\* logout has removed exactly one.
C35_Witness ==
  /\ last.kind = "logout"
  /\ last.resp.status = 200
  /\ last.uid \in Users
  /\ Len(last.pre) - Len(Stored(last.uid)) = 1
  /\ \E i, j \in 1..Len(Stored(last.uid)) :
       /\ i # j
       /\ Stored(last.uid)[i].createdAt = Stored(last.uid)[j].createdAt
       /\ Stored(last.uid)[i].id > SessionCap
       /\ Stored(last.uid)[j].id > SessionCap

\* C36: in every state each principal's session list is ordered by
\* non-decreasing creation time.
C36_CreatedOrder ==
  \A u \in Users : \A i, j \in 1..Len(db[u].sessions) :
    i < j => db[u].sessions[i].createdAt <= db[u].sessions[j].createdAt

\* The request whose response a step sends, with the write it was waiting to
\* save.
Answered(q) == q \in req /\ q.n = last'.n /\ last'.pc = "done" /\ last'.n # last.n
HoldsHash(sessions, tok) ==
  \E j \in 1..Len(sessions) : sessions[j].hash = cryptoHash(tok.rid)

\* C37: a response of a login or of a refresh that sets the refresh cookie or
\* hands out a refresh token T is sent by the step that follows the request's
\* save, that save passed, and it wrote a session with the hash of T's
\* correlation id which the store did not hold before; a login or refresh
\* whose save is rejected answers without cookie and without token.
C37_CookieAfterSave ==
  [][/\ \A kind \in {"login", "emailLogin", "routesLogin", "refresh"} :
          (Responds(kind) /\ (last'.resp.cookie = "set" \/ last'.resp.refresh # NoToken
                               \/ last'.resp.jar # {})) =>
            /\ \E q \in req :
                 /\ Answered(q)
                 /\ q.pc = "save"
                 /\ SaveOk(db[q.uid], q.op, q.lv)
                 /\ last'.resp.refresh = q.newTok
            /\ last'.resp.jar = {last'.resp.refresh}
            /\ ~HoldsHash(db[last'.uid].sessions, last'.resp.refresh)
            /\ HoldsHash(db'[last'.uid].sessions, last'.resp.refresh)
     /\ \A q \in req :
          (/\ Answered(q)
           /\ q.kind \in {"login", "emailLogin", "routesLogin", "refresh"}
           /\ ~SaveOk(db[q.uid], q.op, q.lv)) =>
            /\ last'.resp.cookie # "set"
            /\ last'.resp.refresh = NoToken
            /\ last'.resp.jar = {}
            /\ db' = db]_vars

\* A login over the cap was rejected at its save and answered without cookie
\* after another login had been answered with its cookie.
C37_Witness ==
  /\ last.kind = "emailLogin"
  /\ last.pc = "done"
  /\ last.op.type = "setAll"
  /\ last.resp.status = 500
  /\ last.resp.cookie = "keep"
  /\ \E t \in issued : t.rid > StaleRid /\ HoldsHash(Stored(1), t)

\* C38: a refresh request records the role the store holds for its principal
\* in the step that loads the document, and the access token of its
\* successful response names that principal and carries that role, whatever
\* the store holds for the role by then.
C38_RefreshRoleAtLoad ==
  [][/\ \A q \in req' \ req :
          (q.kind = "refresh" /\ q.uid \in Users) => q.role = db[q.uid].role
     /\ \A q \in req :
          (Answered(q) /\ q.kind = "refresh" /\ Succeeded(last')) =>
            /\ last'.resp.access.sub = q.uid
            /\ last'.resp.access.role = q.role
            /\ last'.resp.access \in granted']_vars

\* Principal 1, whose sessions were created under the role user, generated a
\* card and its next refresh was answered with an access token of role worker.
C38_Witness ==
  /\ last.kind = "refresh"
  /\ Succeeded(last)
  /\ last.sid \in 1..SessionCap
  /\ db[last.uid].role = "worker"
  /\ last.resp.access.role = "worker"

\* A card was generated while a refresh was in flight: the token carries the
\* role read at the load, the store the new one.
C38_WitnessStale ==
  /\ last.kind = "refresh"
  /\ Succeeded(last)
  /\ db[last.uid].role = "worker"
  /\ last.resp.access.role = "user"

\* No two stored principals have the same address, and every stored address
\* is in lower case.
UniqueEmails ==
  /\ \A u, w \in Users : u # w => db[u].email # db[w].email
  /\ \A u \in Users : db[u].email = toLowerCase(db[u].email)

\* C39: no two stored principals share an address, and a register request
\* with a well-formed password that is answered while a principal with the
\* lower-cased address is stored gets the conflict response (409) and leaves
\* the store as it was.
C39_EmailUnique ==
  [][/\ UniqueEmails
     /\ UniqueEmails'
     /\ \A kind \in {"register", "routesRegister"} :
          (Responds(kind) /\ last'.valid /\ FindByEmail(Address(last'.uid)) # {}) =>
            /\ last'.resp.status = 409
            /\ db' = db]_vars

\* The parts of C39 that do not depend on the response.
C39_StoreUnique ==
  [][/\ UniqueEmails
     /\ UniqueEmails'
     /\ \A kind \in {"register", "routesRegister"} :
          (Responds(kind) /\ last'.valid /\ FindByEmail(Address(last'.uid)) # {}) =>
            db' = db]_vars

\* C40: in every state every stored worker has fewer flags than the
\* threshold.
C40_FlagsBelowThreshold ==
  \A id \in 1..Len(workers) : workers[id].stored => workers[id].flags < FLAG_THRESHOLD

====
